---- MODULE Spec2Model ----
(***************************************************************************)
(* Payment-callback state machine of the Click integration:                *)
(*   ClickService.prepare / complete            (click.service.ts)         *)
(*   ClickSubsApiService.prepareTransaction / completeTransaction /        *)
(*   paymentWithToken                           (click-subs-api.service.ts)*)
(* Both services work on the one Transaction collection.  Every awaited   *)
(* operation on that collection is a step of its own; the lookups in the   *)
(* User and Plan collections, which no modelled operation writes, are      *)
(* folded into the step that precedes them.                                *)
(***************************************************************************)
EXTENDS Integers, Sequences, FiniteSets, TLC

VARIABLES
    transactions,   \* the Transaction collection, in insertion order (_id = index)
    subscriptions,  \* UserSubscription documents created, counted per transaction _id
    activations,    \* botService.handlePaymentSuccess invocations, per transaction _id
    pc,             \* per request handler: where it is suspended ("done" after it
                    \* returned, "thrown" after an exception left it)
    req,            \* per request handler: the request body it serves
    loc,            \* per request handler: its local variables
    resp,           \* per request handler: the response it returned
    eff,            \* per request handler: what the current call has written so far
                    \* ("create", the statuses it set, "activate", "subscribe")
    now,            \* Date.now()
    budget,         \* number of requests still to arrive
    seen,           \* per request handler: size of the Transaction collection when
                    \* its current request arrived
    call,           \* the card-token client: the locals of its current logical call, and
                    \* what it has learnt from the answers so far
    sent,           \* the HTTP requests issued to the gateway, in order (for the
                    \* card-token client: those of the current logical call)
    config          \* CLICK_MERCHANT_USER_ID and CLICK_SECRET as ClickService read them

\* the state of the outbound clients
client == <<call, sent, config>>

vars == <<transactions, subscriptions, activations, pc, req, loc, resp, eff, now, budget, seen, call, sent, config>>

----------------------------------------------------------------------------
(* Bounds of the model *)

MaxCalls == 3
MaxSubsCalls == 4
MaxBothCalls == 3
MaxTransId == 2
MaxClock == 2
MaxNetCalls == 1
MaxPollCalls == 3
MaxCoreCalls == 3
MaxPayNetCalls == 1
MaxPart9Calls == 2
MaxAuthCalls == 3
MaxAuthClock == 4

----------------------------------------------------------------------------
(* Configuration and the collections the core only reads *)

SecretKey == "SECRET"
WrongKey == "GUESS"
ServiceId == 7

Users == {"u1"}
Plans == {"p1"}
PlanPrice == [p \in Plans |-> 50000]

\* TransactionStatus
PENDING == "PENDING"
PROCESSING == "PROCESSING"
COMPLETED == "COMPLETED"
PAID == "PAID"
FAILED == "FAILED"
CANCELED == "CANCELED"

\* ClickError
SUCCESS == 0
SIGN_CHECK_FAILED == -1
INVALID_AMOUNT == -2
ACTION_NOT_FOUND == -3
ALREADY_PAID == -4
USER_NOT_FOUND == -5
TRANSACTION_NOT_FOUND == -6
TRANSACTION_CANCELLED == -9

\* ClickAction
ActionPrepare == 0
ActionComplete == 1

Null == 0
NoStr == ""

Workers == {"w1", "w2"}
Payers == {"pay"}
Procs == Workers \cup Payers

TxIds == 1..(MaxCalls + MaxSubsCalls)
TxId(i) == "t" \o ToString(i)

----------------------------------------------------------------------------
(* Callback signature *)

\* crypto md5 hex digest: a one-way function, taken to be injective on the
\* strings the model builds
MD5(s) == <<"md5", s>>

\* `${n}` of a number
Str(n) == ToString(n)

\* generateMD5(params) of hasher.helper: the fields concatenated in the order of
\* the gateway's wire contract, merchant_prepare_id only when it is passed
generateMD5(params) ==
    MD5(params.clickTransId \o Str(params.serviceId) \o params.secretKey
        \o params.merchantTransId
        \o (IF "merchantPrepareId" \in DOMAIN params
            THEN Str(params.merchantPrepareId) ELSE NoStr)
        \o Str(params.amount) \o Str(params.action) \o params.signTime)

\* ClickSubsApiService.createSignature(dto)
createSignature(dto) ==
    MD5(Str(dto.click_trans_id) \o Str(dto.service_id) \o SecretKey
        \o dto.merchant_trans_id \o Str(dto.amount) \o Str(dto.action) \o dto.sign_time)

\* the digest ClickService.prepare computes over its request (myMD5Params
\* without merchantPrepareId)
ClickPrepareHash(r, key) ==
    generateMD5([clickTransId |-> Str(r.click_trans_id),
                 serviceId |-> r.service_id,
                 secretKey |-> key,
                 merchantTransId |-> r.merchant_trans_id,
                 amount |-> r.amount,
                 action |-> r.action,
                 signTime |-> r.sign_time])

\* the digest ClickService.complete computes over its request
ClickCompleteHash(r, key) ==
    generateMD5([clickTransId |-> Str(r.click_trans_id),
                 serviceId |-> r.service_id,
                 secretKey |-> key,
                 merchantTransId |-> r.merchant_trans_id,
                 merchantPrepareId |-> r.merchant_prepare_id,
                 amount |-> r.amount,
                 action |-> r.action,
                 signTime |-> r.sign_time])

----------------------------------------------------------------------------
(* The Transaction collection *)

\* Model.findOne(filter): the first matching document in insertion order, Null if none
FirstOf(S) == IF S = {} THEN Null ELSE CHOOSE i \in S : \A j \in S : i <= j

FindNotPendingByTransId(transId) ==
    FirstOf({i \in DOMAIN transactions :
                transactions[i].transId = transId /\ transactions[i].status # PENDING})

FindPrepared(prepareId, userId, planId) ==
    FirstOf({i \in DOMAIN transactions :
                /\ transactions[i].prepareId = prepareId
                /\ transactions[i].userId = userId
                /\ transactions[i].planId = planId})

\* FindPaid looking for the completed status of the other service
FindPaidMut(planId, prepareId) ==
    FirstOf({i \in DOMAIN transactions :
                /\ transactions[i].planId = planId
                /\ transactions[i].prepareId = prepareId
                /\ transactions[i].status = COMPLETED})

FindPaid(planId, prepareId) ==
    FirstOf({i \in DOMAIN transactions :
                /\ transactions[i].planId = planId
                /\ transactions[i].prepareId = prepareId
                /\ transactions[i].status = PAID})

FindByTransId(transId) ==
    FirstOf({i \in DOMAIN transactions : transactions[i].transId = transId})

FindById(id) ==
    FirstOf({i \in DOMAIN transactions : TxId(i) = id})

\* SetStatus with an update that also clears the amount
SetStatusMut(i, s) ==
    IF i = Null THEN transactions
    ELSE [transactions EXCEPT ![i].status = s, ![i].amount = 0]

\* the collection after document i got status s (findOneAndUpdate, doc.save)
SetStatus(i, s) ==
    IF i = Null THEN transactions
    ELSE [transactions EXCEPT ![i].status = s]

----------------------------------------------------------------------------
(* Request handlers: common parts *)

NoReq == [svc |-> "none"]
NoResp == [error |-> "none"]
NoLoc == [status |-> NoStr, idx |-> Null, time |-> Null]

\* the handler returns r to its caller
Respond(p, r) ==
    /\ pc' = [pc EXCEPT ![p] = "done"]
    /\ resp' = [resp EXCEPT ![p] = r]

\* the handler is suspended at its next await
Goto(p, label) ==
    /\ pc' = [pc EXCEPT ![p] = label]
    /\ UNCHANGED resp

\* a request arrives at a free handler
Accept(p, r, l, e) ==
    /\ pc[p] \in {"idle", "done", "thrown"}
    /\ budget > 0
    /\ budget' = budget - 1
    /\ req' = [req EXCEPT ![p] = r]
    /\ loc' = [loc EXCEPT ![p] = l]
    /\ eff' = [eff EXCEPT ![p] = e]
    /\ seen' = [seen EXCEPT ![p] = Len(transactions)]
    /\ UNCHANGED client

Wrote(p, what) == eff' = [eff EXCEPT ![p] = eff[p] \cup {what}]

\* Date.now() advances
Tick ==
    /\ now < MaxClock
    /\ now' = now + 1
    /\ UNCHANGED <<transactions, subscriptions, activations, pc, req, loc, resp, eff, budget, seen, client>>

----------------------------------------------------------------------------
(* ClickService (click.service.ts) *)

ClickResp(error, id) == [id |-> id, error |-> error]

\* signString !== myMD5Hash in prepare
ClickPrepareSignOk(r) == r.sign_string = ClickPrepareHash(r, SecretKey)

\* ClickCompleteSignOk with the comparison of the digests left out
ClickCompleteSignOkMut(r) == TRUE

\* signString !== myMD5Hash in complete
ClickCompleteSignOk(r) == r.sign_string = ClickCompleteHash(r, SecretKey)

\* the sign_time the gateway sends
SignTime == "2025-01-01 10:00:00"

\* sign_time strings new Date(...) can parse; for any other string, and for a
\* missing sign_time, new Date(...) is an Invalid Date and toISOString() throws
\* a RangeError
ParsableTimes == {SignTime, "2025-01-01 10:00:01"}
DateParses(s) == s \in ParsableTimes

\* ClickPrepareEntry without the comparison of the amount with plan.price
ClickPrepareEntryMut(r) ==
    IF ~DateParses(r.sign_time) THEN <<FALSE, "thrown">>
    ELSE IF r.merchant_trans_id = NoStr \/ r.param1 = NoStr THEN <<TRUE, USER_NOT_FOUND>>
    ELSE IF ~ClickPrepareSignOk(r) THEN <<TRUE, SIGN_CHECK_FAILED>>
    ELSE IF r.merchant_trans_id \notin Users THEN <<TRUE, USER_NOT_FOUND>>
    ELSE IF r.param1 \notin Plans THEN <<TRUE, USER_NOT_FOUND>>
    ELSE <<FALSE, "cp_find">>

\* prepare up to its first read of the Transaction collection:
\* <<TRUE, error>> when it returns, <<FALSE, label>> when it goes on
ClickPrepareEntry(r) ==
    IF ~DateParses(r.sign_time) THEN <<FALSE, "thrown">>
    ELSE IF r.merchant_trans_id = NoStr \/ r.param1 = NoStr THEN <<TRUE, USER_NOT_FOUND>>
    ELSE IF ~ClickPrepareSignOk(r) THEN <<TRUE, SIGN_CHECK_FAILED>>
    ELSE IF r.merchant_trans_id \notin Users THEN <<TRUE, USER_NOT_FOUND>>
    ELSE IF r.param1 \notin Plans THEN <<TRUE, USER_NOT_FOUND>>
    ELSE IF r.amount # PlanPrice[r.param1] THEN <<TRUE, INVALID_AMOUNT>>
    ELSE <<FALSE, "cp_find">>

\* complete up to its first read of the Transaction collection
ClickCompleteEntry(r) ==
    IF ~ClickCompleteSignOk(r) THEN <<TRUE, SIGN_CHECK_FAILED>>
    ELSE IF r.merchant_trans_id \notin Users THEN <<TRUE, USER_NOT_FOUND>>
    ELSE IF r.param1 \notin Plans THEN <<TRUE, USER_NOT_FOUND>>
    ELSE <<FALSE, "cc_prepared">>

\* handleMerchantTransactions: dispatch on the action code
handleMerchantTransactions(r) ==
    IF r.action = ActionPrepare THEN ClickPrepareEntry(r)
    ELSE IF r.action = ActionComplete THEN ClickCompleteEntry(r)
    ELSE <<TRUE, ACTION_NOT_FOUND>>

ClickStart(p, r) ==
    /\ Accept(p, r, NoLoc, {})
    /\ LET o == handleMerchantTransactions(r) IN
        IF o[1] THEN Respond(p, ClickResp(o[2], Null))
        ELSE /\ pc' = [pc EXCEPT ![p] = o[2]]
             /\ resp' = [resp EXCEPT ![p] = NoResp]
    /\ UNCHANGED <<transactions, subscriptions, activations, now>>

\* prepare: Transaction.findOne({transId, status: {$ne: PENDING}})
ClickPrepareFind(p) ==
    /\ pc[p] = "cp_find"
    /\ IF FindNotPendingByTransId(Str(req[p].click_trans_id)) # Null
       THEN /\ Respond(p, ClickResp(ALREADY_PAID, Null))
            /\ UNCHANGED loc
       ELSE /\ Goto(p, "cp_create")
            /\ loc' = [loc EXCEPT ![p].time = now]
    /\ UNCHANGED <<transactions, subscriptions, activations, req, eff, now, budget, seen, client>>

\* prepare: Transaction.create({... status: PENDING}) and the SUCCESS response
ClickPrepareCreate(p) ==
    /\ pc[p] = "cp_create"
    /\ transactions' = Append(transactions,
            [amount |-> req[p].amount,
             transId |-> Str(req[p].click_trans_id),
             status |-> PENDING,
             prepareId |-> loc[p].time,
             userId |-> req[p].merchant_trans_id,
             planId |-> req[p].param1,
             provider |-> "click"])
    /\ Wrote(p, "create")
    /\ Respond(p, ClickResp(SUCCESS, loc[p].time))
    /\ UNCHANGED <<subscriptions, activations, req, loc, now, budget, seen, client>>

\* complete: isPrepared = Transaction.findOne({prepareId, userId, planId})
ClickCompletePrepared(p) ==
    /\ pc[p] = "cc_prepared"
    /\ IF FindPrepared(req[p].merchant_prepare_id, req[p].merchant_trans_id, req[p].param1) = Null
       THEN Respond(p, ClickResp(TRANSACTION_NOT_FOUND, Null))
       ELSE Goto(p, "cc_paid")
    /\ UNCHANGED <<transactions, subscriptions, activations, req, loc, eff, now, budget, seen, client>>

\* complete: isAlreadyPaid = Transaction.findOne({planId, prepareId, status: PAID}),
\* then the amount check
ClickCompletePaid(p) ==
    /\ pc[p] = "cc_paid"
    /\ IF FindPaid(req[p].param1, req[p].merchant_prepare_id) # Null
       THEN Respond(p, ClickResp(ALREADY_PAID, Null))
       ELSE IF req[p].amount # PlanPrice[req[p].param1]
       THEN Respond(p, ClickResp(INVALID_AMOUNT, Null))
       ELSE Goto(p, "cc_find")
    /\ UNCHANGED <<transactions, subscriptions, activations, req, loc, eff, now, budget, seen, client>>

\* complete: transaction = Transaction.findOne({transId}) and the CANCELED check
ClickCompleteFind(p) ==
    /\ pc[p] = "cc_find"
    /\ LET t == FindByTransId(Str(req[p].click_trans_id)) IN
        IF t # Null /\ transactions[t].status = CANCELED
        THEN Respond(p, ClickResp(TRANSACTION_CANCELLED, Null))
        ELSE Goto(p, "cc_update")
    /\ UNCHANGED <<transactions, subscriptions, activations, req, loc, eff, now, budget, seen, client>>

\* complete: if (error > 0)
ClickErrorReported(error) == error > 0

\* complete: Transaction.findOneAndUpdate({transId}, {status: FAILED | PAID})
ClickCompleteUpdate(p) ==
    /\ pc[p] = "cc_update"
    /\ LET t == FindByTransId(Str(req[p].click_trans_id)) IN
        IF ClickErrorReported(req[p].error)
        THEN /\ transactions' = SetStatus(t, FAILED)
             /\ Respond(p, ClickResp(req[p].error, Null))
             /\ UNCHANGED loc
             /\ IF t # Null THEN Wrote(p, FAILED) ELSE UNCHANGED eff
        ELSE /\ transactions' = SetStatus(t, PAID)
             /\ loc' = [loc EXCEPT ![p].idx = t]
             /\ IF t # Null
                THEN Goto(p, "cc_notify") /\ Wrote(p, PAID)
                ELSE Respond(p, ClickResp(SUCCESS, Null)) /\ UNCHANGED eff
    /\ UNCHANGED <<subscriptions, activations, req, now, budget, seen, client>>

\* complete: UserModel.findById(updatedTransaction.userId), then
\* botService.handlePaymentSuccess(...); what it throws is caught and logged
ClickCompleteNotify(p) ==
    /\ pc[p] = "cc_notify"
    /\ IF transactions[loc[p].idx].userId \in Users
       THEN /\ activations' = [activations EXCEPT ![loc[p].idx] = @ + 1]
            /\ Wrote(p, "activate")
       ELSE UNCHANGED <<activations, eff>>
    /\ Respond(p, ClickResp(SUCCESS, Null))
    /\ UNCHANGED <<transactions, subscriptions, req, loc, now, budget, seen, client>>

----------------------------------------------------------------------------
(* ClickSubsApiService (click-subs-api.service.ts): callbacks *)

SubsResp(error, id) == [id |-> id, error |-> error]

\* checkSignature !== dto.sign_string
SubsSignOk(dto) == dto.sign_string = createSignature(dto)

\* SubsPrepareEntry without the rejection of a non-zero error
SubsPrepareEntryMut(dto) ==
    IF ~SubsSignOk(dto) THEN <<TRUE, SIGN_CHECK_FAILED>>
    ELSE <<FALSE, "sp_find">>

\* prepareTransaction up to its read of the transaction
SubsPrepareEntry(dto) ==
    IF dto.error # 0 THEN <<TRUE, ACTION_NOT_FOUND>>
    ELSE IF ~SubsSignOk(dto) THEN <<TRUE, SIGN_CHECK_FAILED>>
    ELSE <<FALSE, "sp_find">>

\* completeTransaction up to its read of the transaction
SubsCompleteEntry(dto) ==
    IF dto.error # 0 THEN <<TRUE, dto.error>>
    ELSE IF ~SubsSignOk(dto) THEN <<TRUE, SIGN_CHECK_FAILED>>
    ELSE <<FALSE, "sc_find">>

SubsStart(p, dto, entry) ==
    /\ Accept(p, dto, NoLoc, {})
    /\ IF entry[1] THEN Respond(p, SubsResp(entry[2], NoStr))
       ELSE /\ pc' = [pc EXCEPT ![p] = entry[2]]
            /\ resp' = [resp EXCEPT ![p] = NoResp]
    /\ UNCHANGED <<transactions, subscriptions, activations, now>>

\* the ClickSubsApiController routes: POST /payment/prepare, POST /payment/complete
SubsPrepareStart(p, dto) == SubsStart(p, dto, SubsPrepareEntry(dto))
SubsCompleteStart(p, dto) == SubsStart(p, dto, SubsCompleteEntry(dto))

\* SubsPrepareCheck testing for the status the transaction is about to get
SubsPrepareCheckMut(t, dto) ==
    IF t = Null THEN TRANSACTION_NOT_FOUND
    ELSE IF transactions[t].amount # dto.amount THEN INVALID_AMOUNT
    ELSE IF transactions[t].status # PROCESSING THEN TRANSACTION_CANCELLED
    ELSE SUCCESS

\* prepareTransaction after Transaction.findOne({_id}): the error it returns, or
\* SUCCESS when it goes on to save PROCESSING
SubsPrepareCheck(t, dto) ==
    IF t = Null THEN TRANSACTION_NOT_FOUND
    ELSE IF transactions[t].amount # dto.amount THEN INVALID_AMOUNT
    ELSE IF transactions[t].status # PENDING THEN TRANSACTION_CANCELLED
    ELSE SUCCESS

SubsPrepareFind(p) ==
    /\ pc[p] = "sp_find"
    /\ LET t == FindById(req[p].merchant_trans_id)
           e == SubsPrepareCheck(t, req[p]) IN
        IF e # SUCCESS
        THEN Respond(p, SubsResp(e, NoStr)) /\ UNCHANGED loc
        ELSE Goto(p, "sp_save") /\ loc' = [loc EXCEPT ![p].idx = t]
    /\ UNCHANGED <<transactions, subscriptions, activations, req, eff, now, budget, seen, client>>

\* transaction.status = PROCESSING; await transaction.save()
SubsPrepareSave(p) ==
    /\ pc[p] = "sp_save"
    /\ transactions' = SetStatus(loc[p].idx, PROCESSING)
    /\ Wrote(p, PROCESSING)
    /\ Respond(p, SubsResp(SUCCESS, TxId(loc[p].idx)))
    /\ UNCHANGED <<subscriptions, activations, req, loc, now, budget, seen, client>>

\* SubsCompleteCheck without the early return for a COMPLETED transaction
SubsCompleteCheckMut(t, dto) ==
    IF t = Null THEN [status |-> NoStr, error |-> TRANSACTION_NOT_FOUND, k |-> "error"]
    ELSE IF transactions[t].status # PROCESSING
    THEN [status |-> NoStr, error |-> TRANSACTION_CANCELLED, k |-> "error"]
    ELSE IF dto.error < 0 THEN [status |-> FAILED, error |-> dto.error, k |-> "save"]
    ELSE [status |-> COMPLETED, error |-> SUCCESS, k |-> "save"]

\* completeTransaction after Transaction.findOne({_id}): what it does next
\* ("done" already COMPLETED, "save" set the status and save, "error" return
\* the error code)
SubsCompleteCheck(t, dto) ==
    IF t = Null THEN [status |-> NoStr, error |-> TRANSACTION_NOT_FOUND, k |-> "error"]
    ELSE IF transactions[t].status = COMPLETED
    THEN [status |-> NoStr, error |-> SUCCESS, k |-> "done"]
    ELSE IF transactions[t].status # PROCESSING
    THEN [status |-> NoStr, error |-> TRANSACTION_CANCELLED, k |-> "error"]
    ELSE IF dto.error < 0 THEN [status |-> FAILED, error |-> dto.error, k |-> "save"]
    ELSE [status |-> COMPLETED, error |-> SUCCESS, k |-> "save"]

SubsCompleteFind(p) ==
    /\ pc[p] = "sc_find"
    /\ LET t == FindById(req[p].merchant_trans_id)
           c == SubsCompleteCheck(t, req[p]) IN
        CASE c.k = "done" -> Respond(p, SubsResp(SUCCESS, TxId(t))) /\ UNCHANGED loc
          [] c.k = "save" -> /\ Goto(p, "sc_save")
                             /\ loc' = [loc EXCEPT ![p].idx = t, ![p].status = c.status]
          [] OTHER -> Respond(p, SubsResp(c.error, NoStr)) /\ UNCHANGED loc
    /\ UNCHANGED <<transactions, subscriptions, activations, req, eff, now, budget, seen, client>>

\* await transaction.save() of the status set in memory (FAILED, and the error is
\* returned; or COMPLETED, and the user and the plan of the transaction are looked up)
SubsCompleteSave(p) ==
    /\ pc[p] = "sc_save"
    /\ transactions' = SetStatus(loc[p].idx, loc[p].status)
    /\ Wrote(p, loc[p].status)
    /\ IF loc[p].status = FAILED
       THEN Respond(p, SubsResp(req[p].error, NoStr))
       ELSE IF transactions[loc[p].idx].userId \in Users /\ transactions[loc[p].idx].planId \in Plans
       THEN Goto(p, "sc_sub")
       ELSE Respond(p, SubsResp(SUCCESS, TxId(loc[p].idx)))
    /\ UNCHANGED <<subscriptions, activations, req, loc, now, budget, seen, client>>

\* await UserSubscription.create({...}); user.save(); the SUCCESS response
SubsCompleteSubscribe(p) ==
    /\ pc[p] = "sc_sub"
    /\ subscriptions' = [subscriptions EXCEPT ![loc[p].idx].callback = @ + 1]
    /\ Wrote(p, "subscribe")
    /\ Respond(p, SubsResp(SUCCESS, TxId(loc[p].idx)))
    /\ UNCHANGED <<transactions, activations, req, loc, now, budget, seen, client>>

\* completeTransaction when a write after the save of COMPLETED throws:
\* UserSubscription.create (nothing created) or user.save (the subscription
\* exists); no try/catch surrounds them, the exception leaves the handler
SubsCompleteThrow(p, created) ==
    /\ pc[p] = "sc_sub"
    /\ IF created
       THEN /\ subscriptions' = [subscriptions EXCEPT ![loc[p].idx].callback = @ + 1]
            /\ Wrote(p, "subscribe")
       ELSE UNCHANGED <<subscriptions, eff>>
    /\ pc' = [pc EXCEPT ![p] = "thrown"]
    /\ resp' = [resp EXCEPT ![p] = NoResp]
    /\ UNCHANGED <<transactions, activations, req, loc, now, budget, seen, client>>

----------------------------------------------------------------------------
(* ClickSubsApiService.paymentWithToken *)

\* users with a verified card in UserCardsModel, and its cardType
UserCards == [u \in {"u1"} |-> "CLICK"]

PayResp(ok) == [success |-> ok]

\* what retryWithMultipleUrls('/payment', ...) hands back: a response with
\* error_code 0, a response with another error_code, or an exception
GatewayOutcomes == {"ok", "declined", "throw"}

\* the checks before Transaction.create
PayEntryOk(r) ==
    /\ r.userId \in DOMAIN UserCards
    /\ UserCards[r.userId] = "CLICK"
    /\ r.planId \in Plans

\* paymentWithToken up to Transaction.create({... status: PENDING})
PayStart(p, r) ==
    IF ~PayEntryOk(r)
    THEN /\ Accept(p, r, NoLoc, {})
         /\ Respond(p, PayResp(FALSE))
         /\ UNCHANGED <<transactions, subscriptions, activations, now>>
    ELSE /\ Accept(p, r, [NoLoc EXCEPT !.idx = Len(transactions) + 1], {"create"})
         /\ transactions' = Append(transactions,
                 [amount |-> PlanPrice[r.planId],
                  transId |-> NoStr,
                  status |-> PENDING,
                  prepareId |-> Null,
                  userId |-> r.userId,
                  planId |-> r.planId,
                  provider |-> "click"])
         /\ pc' = [pc EXCEPT ![p] = "pw_call"]
         /\ resp' = [resp EXCEPT ![p] = NoResp]
         /\ UNCHANGED <<subscriptions, activations, now>>

\* response = await this.retryWithMultipleUrls('/payment', ...); a response
\* with error_code 0 goes on to PAID, any other response and any exception to FAILED
PayCall(p, outcome) ==
    /\ pc[p] = "pw_call"
    /\ Goto(p, IF outcome = "ok" THEN "pw_paid" ELSE "pw_failed")
    /\ UNCHANGED <<transactions, subscriptions, activations, req, loc, eff, now, budget, seen, client>>

\* the payment_id the gateway assigned to the charge of transaction i
PaymentId(i) == "pay" \o ToString(i)

\* transaction.status = PAID; transaction.transId = payment_id; await transaction.save()
PayPaid(p) ==
    /\ pc[p] = "pw_paid"
    /\ transactions' = [transactions EXCEPT ![loc[p].idx].status = PAID,
                                            ![loc[p].idx].transId = PaymentId(loc[p].idx)]
    /\ Wrote(p, PAID)
    /\ Goto(p, "pw_sub")
    /\ UNCHANGED <<subscriptions, activations, req, loc, now, budget, seen, client>>

\* await UserSubscription.create({...}), the user update and {success: true};
\* when a write throws, the catch block takes over
PaySubscribe(p, written) ==
    /\ pc[p] = "pw_sub"
    /\ IF written
       THEN /\ subscriptions' = [subscriptions EXCEPT ![loc[p].idx].token = @ + 1]
            /\ Wrote(p, "subscribe")
            /\ Respond(p, PayResp(TRUE))
       ELSE /\ Goto(p, "pw_failed")
            /\ UNCHANGED <<subscriptions, eff>>
    /\ UNCHANGED <<transactions, activations, req, loc, now, budget, seen, client>>

\* transaction.status = FAILED; await transaction.save(); {success: false}
PayFailed(p) ==
    /\ pc[p] = "pw_failed"
    /\ transactions' = SetStatus(loc[p].idx, FAILED)
    /\ Wrote(p, FAILED)
    /\ Respond(p, PayResp(FALSE))
    /\ UNCHANGED <<subscriptions, activations, req, loc, now, budget, seen, client>>

----------------------------------------------------------------------------
(* BotService.checkPendingClickPayments (payme-subs-api.module.ts): the        *)
(* periodic poller of pending payments.  A run reads the pending invoices once *)
(* and then goes through them; runs are started by a timer that does not wait  *)
(* for the run before, so two runs may overlap.                                *)

PollReq == [svc |-> "poll"]
PollResp == [error |-> "void"]

\* Transaction.find({provider: 'click', status: PENDING, createdAt: ...}).limit(10)
PendingInvoices ==
    SelectSeq([i \in 1..Len(transactions) |-> i],
              LAMBDA i : transactions[i].provider = "click" /\ transactions[i].status = PENDING)

\* the run starts and reads the pending invoices
PollStart(p) ==
    /\ Accept(p, PollReq, [queue |-> PendingInvoices] @@ NoLoc, {})
    /\ IF PendingInvoices = <<>>
       THEN Respond(p, PollResp)
       ELSE /\ pc' = [pc EXCEPT ![p] = "pl_check"]
            /\ resp' = [resp EXCEPT ![p] = NoResp]
    /\ UNCHANGED <<transactions, subscriptions, activations, now>>

\* the for loop goes on to the next invoice, or the run ends
PollAdvance(p) ==
    /\ loc' = [loc EXCEPT ![p].queue = Tail(@)]
    /\ IF Len(loc[p].queue) = 1 THEN Respond(p, PollResp) ELSE Goto(p, "pl_check")

\* paymentStatus = await this.clickService.checkPaymentByMerchantTransId(...):
\* status 1 means paid; any other answer, or an exception, leaves the invoice alone
PollCheck(p, status) ==
    /\ pc[p] = "pl_check"
    /\ IF status = 1
       THEN Goto(p, "pl_update") /\ UNCHANGED loc
       ELSE PollAdvance(p)
    /\ UNCHANGED <<transactions, subscriptions, activations, req, eff, now, budget, seen, client>>

\* await Transaction.findByIdAndUpdate(invoice._id, {status: PAID})
PollUpdate(p) ==
    /\ pc[p] = "pl_update"
    /\ transactions' = SetStatus(Head(loc[p].queue), PAID)
    /\ Wrote(p, PAID)
    /\ Goto(p, "pl_notify")
    /\ UNCHANGED <<subscriptions, activations, req, loc, now, budget, seen, client>>

\* user = await UserModel.findById(invoice.userId); if (user) handlePaymentSuccess(...)
PollNotify(p) ==
    /\ pc[p] = "pl_notify"
    /\ LET i == Head(loc[p].queue) IN
        IF transactions[i].userId \in Users
        THEN /\ activations' = [activations EXCEPT ![i] = @ + 1]
             /\ Wrote(p, "activate")
        ELSE UNCHANGED <<activations, eff>>
    /\ PollAdvance(p)
    /\ UNCHANGED <<transactions, subscriptions, req, now, budget, seen, client>>

PollStep(p) ==
    \/ \E status \in {0, 1} : PollCheck(p, status)
    \/ PollUpdate(p)
    \/ PollNotify(p)

----------------------------------------------------------------------------
(* The card-token client of ClickSubsApiService: getHeaders, retryRequest and *)
(* the candidate loop, in the variant of click-subs-api.service.ts            *)
(* (retryWithMultipleUrls) and in the variant of part_010 (tryMultipleUrls).  *)
(* One step is one axios.post together with the control flow up to the next   *)
(* request, the timer of a backoff being a step of its own.                   *)

MerchantUserId == "58924"

\* baseUrls (click-subs-api.service.ts) and cardTokenUrls (part_010): their lengths
NumBaseUrls == 4
NumCardTokenUrls == 3

\* the maxRetries both candidate loops pass to retryRequest
MaxRetries == 2

Variants == {"service", "part_010"}

Urls(variant) == IF variant = "service" THEN 1..NumBaseUrls ELSE 1..NumCardTokenUrls

\* crypto.createHash(alg).update(s).digest('hex'): injective, tagged with the
\* algorithm (sha1 gives 40 hex characters, sha256 gives 64)
Hash(alg, s) == <<alg, s>>

\* Unix time of the model's second 0
UnixEpochBase == 1735725600

\* new Date().toISOString() in second t
toISOString(t) == "2025-01-01T10:00:0" \o ToString(t) \o ".000Z"

\* Math.floor(Date.now() / 1000) in second t, as it prints
UnixSeconds(t) == ToString(UnixEpochBase + t)

\* getHeaders(): Auth is `${merchantUserId}:${digest}:${timestamp}`, kept as its
\* three parts
getHeaders(t) ==
    LET timestamp == toISOString(t)
        digest == Hash("sha256", timestamp \o SecretKey)
    IN [Auth |-> <<MerchantUserId, digest, timestamp>>]

\* what axios.post ends with: a timeout (code ECONNABORTED, no response) or an
\* HTTP response, whose body may be a structured gateway body with an error_code
Timeout == [status |-> 0, code |-> "ECONNABORTED", structured |-> FALSE, error_code |-> 0, mock |-> FALSE]
Http(status, structured, ec) == [status |-> status, code |-> "", structured |-> structured, error_code |-> ec, mock |-> FALSE]
NoAnswer == [status |-> 0, code |-> "none", structured |-> FALSE, error_code |-> 0, mock |-> FALSE]

FailStatuses == {400, 401, 403, 404, 500, 502, 503, 504}

Answers ==
    {Timeout, Http(200, TRUE, 0), Http(200, TRUE, -5017)}
        \cup {Http(st, FALSE, 0) : st \in FailStatuses}
        \cup {Http(400, TRUE, -5017), Http(404, TRUE, -404), Http(500, TRUE, -500)}

\* axios resolves on a 2xx status and rejects otherwise
Resolves(a) == a.code = "" /\ a.status >= 200 /\ a.status < 300

\* createMockResponse('/payment')
createMockResponse == [status |-> 200, code |-> "", structured |-> TRUE, error_code |-> 0, mock |-> TRUE]

\* retryRequest of click-subs-api.service.ts: the errors it tries again after
RetriesAfter(error) ==
    \/ error.code = "ECONNABORTED"
    \/ error.status \in {502, 503, 504}

\* retryRequest of part_010: the errors it does not try again after
GivesUpAfter(error) == error.status \in {400, 401, 403}

\* a retryRequest whose loop counter starts one lower
FirstAttemptMut(variant) == IF variant = "service" THEN 0 - 1 ELSE 0

\* the first value of retryRequest's loop counter
FirstAttempt(variant) == IF variant = "service" THEN 0 ELSE 1

\* retryRequest that tries again after every failure while attempts are left
retryRequestMut(variant, i, error) == i # MaxRetries

\* retryRequest, in its catch block: TRUE when it waits and issues the request again
retryRequest(variant, i, error) ==
    IF i = MaxRetries THEN FALSE
    ELSE IF variant = "service" THEN RetriesAfter(error)
    ELSE ~GivesUpAfter(error)

\* the catch block of the candidate loop, and what follows the loop:
\* "next" candidate, "mock" response returned, or "throw"
CandidateLoop(variant, dev, urlIndex, error) ==
    IF variant = "service"
    THEN IF urlIndex < NumBaseUrls THEN "next"
         ELSE IF dev THEN "mock" ELSE "throw"
    ELSE IF error.structured THEN "throw"
         ELSE IF urlIndex < NumCardTokenUrls THEN "next" ELSE "throw"

IdleCall ==
    [pc |-> "idle", i |-> 0, variant |-> "service", dev |-> FALSE, urlIndex |-> 0,
     headers |-> [Auth |-> <<>>], lastError |-> NoAnswer, result |-> NoAnswer,
     gateway |-> NoAnswer, gatewayAt |-> 0, timeouts |-> 0]

\* a logical call begins: the caller takes headers = this.getHeaders() and enters
\* the candidate loop; dev is process.env.NODE_ENV !== 'production'
NetBegin(variant, dev) ==
    /\ call' = [IdleCall EXCEPT !.pc = "post", !.variant = variant, !.dev = dev,
                                !.urlIndex = 1, !.i = FirstAttempt(variant),
                                !.headers = getHeaders(now)]
    /\ sent' = <<>>

\* what the call remembers of its answers: the first structured gateway body
\* with the number of requests issued when it arrived, and how many requests
\* timed out
NoteAnswer(c, a, n) ==
    LET d == [c EXCEPT !.timeouts = IF a = Timeout THEN @ + 1 ELSE @] IN
    IF a.structured /\ c.gatewayAt = 0
    THEN [d EXCEPT !.gateway = a, !.gatewayAt = n]
    ELSE d

\* NetPost with a candidate loop that keeps the response of a candidate that
\* succeeded and goes on to the candidates after it
NetPostMut(a) ==
    /\ call.pc = "post"
    /\ sent' = Append(sent, [headers |-> call.headers, url |-> call.urlIndex,
                             at |-> now])
    /\ LET c == NoteAnswer(call, a, Len(sent) + 1) IN
        IF Resolves(a) /\ c.urlIndex = Cardinality(Urls(c.variant))
        THEN call' = [c EXCEPT !.pc = "returned", !.result = a]
        ELSE IF Resolves(a)
        THEN call' = [c EXCEPT !.urlIndex = @ + 1, !.result = a]
        ELSE IF retryRequest(c.variant, c.i, a)
        THEN call' = [c EXCEPT !.pc = "backoff", !.lastError = a]
        ELSE LET d == CandidateLoop(c.variant, c.dev, c.urlIndex, a) IN
            CASE d = "next" ->
                    call' = [c EXCEPT !.urlIndex = @ + 1, !.i = FirstAttempt(c.variant),
                                      !.lastError = a]
              [] d = "mock" ->
                    call' = [c EXCEPT !.pc = "returned", !.lastError = a,
                                      !.result = createMockResponse]
              [] OTHER ->
                    call' = [c EXCEPT !.pc = "threw", !.lastError = a]

\* axios.post to the current candidate ends with a; retryRequest and the
\* candidate loop decide what follows
NetPost(a) ==
    /\ call.pc = "post"
    /\ sent' = Append(sent, [headers |-> call.headers, url |-> call.urlIndex,
                             at |-> now])
    /\ LET c == NoteAnswer(call, a, Len(sent) + 1) IN
        IF Resolves(a)
        THEN call' = [c EXCEPT !.pc = "returned", !.result = a]
        ELSE IF retryRequest(c.variant, c.i, a)
        THEN call' = [c EXCEPT !.pc = "backoff", !.lastError = a]
        ELSE LET d == CandidateLoop(c.variant, c.dev, c.urlIndex, a) IN
            CASE d = "next" ->
                    call' = [c EXCEPT !.urlIndex = @ + 1, !.i = FirstAttempt(c.variant),
                                      !.lastError = a]
              [] d = "mock" ->
                    call' = [c EXCEPT !.pc = "returned", !.lastError = a,
                                      !.result = createMockResponse]
              [] OTHER ->
                    call' = [c EXCEPT !.pc = "threw", !.lastError = a]

\* await new Promise(resolve => setTimeout(resolve, delay)): a second or more
\* passes, then the loop of retryRequest goes round
NetBackoff ==
    /\ call.pc = "backoff"
    /\ now' = now + 1
    /\ call' = [call EXCEPT !.pc = "post", !.i = @ + 1]
    /\ UNCHANGED sent

\* the handlers' state, which the client leaves alone
core == <<transactions, subscriptions, activations, pc, req, loc, resp, eff, seen>>

\* a logical call of the client made on its own (createCardtoken, verify...)
NetCall(variant, dev) ==
    /\ call.pc \in {"idle", "returned", "threw"}
    /\ budget > 0
    /\ budget' = budget - 1
    /\ NetBegin(variant, dev)
    /\ UNCHANGED <<core, now, config>>

NetAnswer(a) == NetPost(a) /\ UNCHANGED <<core, now, budget, config>>

NetTimer == NetBackoff /\ UNCHANGED <<core, budget, config>>

----------------------------------------------------------------------------
(* paymentWithToken with its gateway call spelt out: the call of              *)
(* retryWithMultipleUrls('/payment', ...) is a logical call of the client      *)

\* headers = this.getHeaders(); response = await this.retryWithMultipleUrls(...)
PayNetBegin(p, dev) ==
    /\ pc[p] = "pw_call"
    /\ call.pc \in {"idle", "returned", "threw"}
    /\ NetBegin("service", dev)
    /\ Goto(p, "pw_wait")
    /\ UNCHANGED <<transactions, subscriptions, activations, req, loc, eff, now, budget, seen, config>>

\* retryWithMultipleUrls is over: const { error_code, payment_id } = response.data
\* and the test error_code !== 0, or the catch block when it threw
PayNetEnd(p) ==
    /\ pc[p] = "pw_wait"
    /\ call.pc \in {"returned", "threw"}
    /\ Goto(p, IF call.pc = "returned" /\ call.result.error_code = 0
               THEN "pw_paid" ELSE "pw_failed")
    /\ UNCHANGED <<transactions, subscriptions, activations, req, loc, eff, now, budget, seen, client>>

PayNetCall(p) == \E dev \in BOOLEAN : PayNetBegin(p, dev)


----------------------------------------------------------------------------
(* ClickService (click.service.ts): the Auth header of its status requests *)

\* generateAuthHeader with timestamps of two-second resolution
generateAuthHeaderMut(merchantUserId, secretKey, t) ==
    LET timestamp == UnixSeconds(2 * (t \div 2))
        digest == Hash("sha1", timestamp \o secretKey)
    IN <<merchantUserId, digest, timestamp>>

\* generateAuthHeader() in second t: `${merchantUserId}:${digest}:${timestamp}`,
\* kept as its three parts
generateAuthHeader(merchantUserId, secretKey, t) ==
    LET timestamp == UnixSeconds(t)
        digest == Hash("sha1", timestamp \o secretKey)
    IN <<merchantUserId, digest, timestamp>>

\* checkInvoiceStatus / checkPaymentStatus: authHeader = this.generateAuthHeader()
\* and the axios.get that carries it
ClickStatusRequest ==
    /\ budget > 0
    /\ budget' = budget - 1
    /\ sent' = Append(sent,
            [headers |-> [Auth |-> generateAuthHeader(config.merchantUserId, config.secretKey, now)],
             url |-> 1,
             at |-> now])
    /\ UNCHANGED <<core, now, call, config>>

\* Date.now() advances while ClickService is asking the gateway
AuthTick ==
    /\ now < MaxAuthClock
    /\ now' = now + 1
    /\ UNCHANGED <<core, budget, client>>

\* the configurations ClickService may be constructed with
AuthConfigs == [secretKey : {SecretKey, WrongKey}, merchantUserId : {MerchantUserId, "60001"}]

InitAuth ==
    \E cfg \in AuthConfigs :
        /\ transactions = <<>>
        /\ subscriptions = [i \in TxIds |-> [callback |-> 0, token |-> 0]]
        /\ activations = [i \in TxIds |-> 0]
        /\ pc = [p \in Procs |-> "idle"]
        /\ req = [p \in Procs |-> NoReq]
        /\ loc = [p \in Procs |-> NoLoc]
        /\ resp = [p \in Procs |-> NoResp]
        /\ eff = [p \in Procs |-> {}]
        /\ now = 1
        /\ budget = MaxAuthCalls
        /\ seen = [p \in Procs |-> 0]
        /\ call = IdleCall
        /\ sent = <<>>
        /\ config = cfg
NextAuth == ClickStatusRequest \/ AuthTick
SpecAuth == InitAuth /\ [][NextAuth]_vars

----------------------------------------------------------------------------
(* The requests the gateway and the bot may send *)

ReqErrors == {0, 7, -5017}
Amounts == {50000, 40000}

\* the user and plan a callback names: both known, or one of them unknown
UserPlanPairs == {<<"u1", "p1">>, <<"u9", "p1">>, <<"u1", "p9">>}

Callback(svc, ctid, mtid, param1, mpid, amount, action, error, sign) ==
    [amount |-> amount, action |-> action, click_trans_id |-> ctid,
     service_id |-> ServiceId, merchant_trans_id |-> mtid, sign_time |-> SignTime,
     merchant_prepare_id |-> mpid, svc |-> svc, error |-> error, sign_string |-> sign,
     param1 |-> param1]

\* the digest the gateway puts on a callback to ClickService, computed with key k
GatewaySign(r, k) ==
    IF r.action = ActionComplete THEN ClickCompleteHash(r, k) ELSE ClickPrepareHash(r, k)

\* the digest the gateway puts on a callback to ClickSubsApiService
GatewaySubsSign(r, k) ==
    MD5(Str(r.click_trans_id) \o Str(r.service_id) \o k
        \o r.merchant_trans_id \o Str(r.amount) \o Str(r.action) \o r.sign_time)

WithSign(r, s) == [r EXCEPT !.sign_string = s]

Keys == {SecretKey, WrongKey}

\* callbacks to ClickService: signed by the gateway or by someone guessing the key
ClickPrepareRequests ==
    {WithSign(r, GatewaySign(r, k)) :
        r \in {Callback("click", c, up[1], up[2], Null, a, ActionPrepare, 0, NoStr) :
                 c \in 1..MaxTransId, up \in UserPlanPairs, a \in Amounts},
        k \in Keys}

ClickCompleteRequests ==
    {WithSign(r, GatewaySign(r, k)) :
        r \in {Callback("click", c, up[1], up[2], m, a, ActionComplete, e, NoStr) :
                 c \in 1..MaxTransId, up \in UserPlanPairs, m \in 1..MaxClock,
                 a \in Amounts, e \in ReqErrors},
        k \in Keys}

ClickOtherRequests ==
    {WithSign(r, GatewaySign(r, SecretKey)) :
        r \in {Callback("click", 1, "u1", "p1", Null, 50000, 2, 0, NoStr)}}

ClickRequests == ClickPrepareRequests \cup ClickCompleteRequests \cup ClickOtherRequests

\* callbacks to ClickSubsApiService
SubsRequests(action) ==
    {WithSign(r, GatewaySubsSign(r, k)) :
        r \in {Callback("subs", 1, TxId(i), NoStr, i, a, action, e, NoStr) :
                 i \in 1..MaxTransId, a \in Amounts, e \in ReqErrors},
        k \in Keys}

SubsPrepareRequests == SubsRequests(ActionPrepare)
SubsCompleteRequests == SubsRequests(ActionComplete)

PayRequests == [userId : {"u1", "u9"}, planId : {"p1", "p9"}, svc : {"pay"}]

----------------------------------------------------------------------------
(* Next-state relations *)

ClickCall(p) == \E r \in ClickRequests : ClickStart(p, r)

SubsPrepareCall(p) == \E dto \in SubsPrepareRequests : SubsPrepareStart(p, dto)

SubsCompleteCall(p) == \E dto \in SubsCompleteRequests : SubsCompleteStart(p, dto)

PayTokenCall(p) == \E r \in PayRequests : PayStart(p, r)

PayGateway(p) == \E outcome \in GatewayOutcomes : PayCall(p, outcome)

PayActivation(p) == \E written \in BOOLEAN : PaySubscribe(p, written)

ClickStep(p) ==
    \/ ClickPrepareFind(p)
    \/ ClickPrepareCreate(p)
    \/ ClickCompletePrepared(p)
    \/ ClickCompletePaid(p)
    \/ ClickCompleteFind(p)
    \/ ClickCompleteUpdate(p)
    \/ ClickCompleteNotify(p)

SubsStep(p) ==
    \/ SubsPrepareFind(p)
    \/ SubsPrepareSave(p)
    \/ SubsCompleteFind(p)
    \/ SubsCompleteSave(p)
    \/ SubsCompleteSubscribe(p)

PayerStep(p) ==
    \/ PayTokenCall(p)
    \/ PayGateway(p)
    \/ PayPaid(p)
    \/ PayActivation(p)
    \/ PayFailed(p)

InitWith(n) ==
    /\ transactions = <<>>
    /\ subscriptions = [i \in TxIds |-> [callback |-> 0, token |-> 0]]
    /\ activations = [i \in TxIds |-> 0]
    /\ pc = [p \in Procs |-> "idle"]
    /\ req = [p \in Procs |-> NoReq]
    /\ loc = [p \in Procs |-> NoLoc]
    /\ resp = [p \in Procs |-> NoResp]
    /\ eff = [p \in Procs |-> {}]
    /\ now = 1
    /\ budget = n
    /\ seen = [p \in Procs |-> 0]
    /\ call = IdleCall
    /\ sent = <<>>
    /\ config = [secretKey |-> SecretKey, merchantUserId |-> MerchantUserId]

\* callbacks whose sign_time is no date, signed by the gateway all the same
ClickMalformedRequests ==
    {WithSign(r, GatewaySign(r, SecretKey)) :
        r \in {[Callback("click", 1, "u1", "p1", 1, 50000, a, 0, NoStr)
                  EXCEPT !.sign_time = "n/a"] : a \in {ActionPrepare, ActionComplete}}}

\* a query or write on the Transaction collection rejects (connection lost,
\* timeout): nothing in prepare, complete, handleMerchantTransactions or the
\* controller catches it
ClickStoreThrow(p) ==
    /\ pc[p] \in {"cp_find", "cp_create", "cc_prepared", "cc_paid", "cc_find", "cc_update"}
    /\ pc' = [pc EXCEPT ![p] = "thrown"]
    /\ resp' = [resp EXCEPT ![p] = NoResp]
    /\ UNCHANGED <<transactions, subscriptions, activations, req, loc, eff, now, budget, seen, client>>

ClickAnyCall(p) == \E r \in ClickRequests \cup ClickMalformedRequests : ClickStart(p, r)

\* ClickService with any request body and a store that may fail
InitClickFault == InitWith(MaxCalls)
NextClickFault == Tick \/ ClickAnyCall("w1") \/ ClickStep("w1") \/ ClickStoreThrow("w1")
SpecClickFault == InitClickFault /\ [][NextClickFault]_vars

(* the card-token client of part_009: one candidate, and every HTTP response  *)
(* resolves (validateStatus: () => true), so the body is examined by the loop *)

\* cardTokenUrls of part_009 and the maxRetries its loop passes to retryRequest
NumPart9Urls == 1
Part9MaxRetries == 1

\* the Content-Type headers a response may carry ("" when it carries none)
Part9ContentTypes == {"", "application/json", "text/html", "text/plain"}

\* response.data: a parsed JSON object with its error_code, or a string that
\* axios could not parse: an HTML document that starts with '<!DOCTYPE html',
\* an HTML document that starts otherwise, or other text
Part9Bodies ==
    {[error_code |-> e, html |-> FALSE, type |-> "object", doctype |-> FALSE] : e \in {0, -404, -5017}}
        \cup {[error_code |-> 0, html |-> TRUE, type |-> "string", doctype |-> TRUE],
              [error_code |-> 0, html |-> TRUE, type |-> "string", doctype |-> FALSE],
              [error_code |-> 0, html |-> FALSE, type |-> "string", doctype |-> FALSE]}

\* what axios.post ends with: a transport error (no response) or a response
Part9Transport == {[code |-> c, kind |-> "transport"] : c \in {"ECONNABORTED", "ECONNREFUSED"}}
Part9Responses ==
    [status : {200, 404, 502}, kind : {"response"}, contentType : Part9ContentTypes,
     data : Part9Bodies]
Part9Answers == Part9Transport \cup Part9Responses

\* the checks of the candidate loop on a response: the message of the Error it
\* throws, or "return" when it returns the response
Part9Check(r) ==
    IF r.data.type = "string" /\ (r.data.doctype \/ r.contentType = "text/html")
    THEN "HTML_RESPONSE"
    ELSE IF r.contentType # "" /\ r.contentType # "application/json" /\ r.data.type # "object"
    THEN "NON_JSON_RESPONSE"
    ELSE IF r.status = 404 \/ (r.data.type = "object" /\ r.data.error_code = -404)
    THEN "RESOURCE_NOT_FOUND"
    ELSE "return"

\* createCardtoken and the like: headers = this.getHeaders() and the call of
\* retryWithMultipleUrls, which enters its loop
Part9Call ==
    /\ call.pc \in {"idle", "returned", "threw"}
    /\ budget > 0
    /\ budget' = budget - 1
    /\ call' = [IdleCall EXCEPT !.pc = "post", !.variant = "part_009", !.urlIndex = 1,
                                !.headers = [Auth |-> generateAuthHeader(MerchantUserId, SecretKey, now)]]
    /\ sent' = <<>>
    /\ UNCHANGED <<core, now, config>>

\* axios.post ends with a: retryRequest tries again after a retriable transport
\* error while an attempt is left; a response is examined and returned or
\* turned into an Error; after the last candidate lastError is thrown.  The
\* call keeps the answer in gateway.
Part9Answer(a) ==
    /\ call.pc = "post"
    /\ call.variant = "part_009"
    /\ sent' = Append(sent, [headers |-> call.headers, url |-> call.urlIndex, at |-> now])
    /\ LET c == [call EXCEPT !.gateway = a, !.gatewayAt = Len(sent) + 1] IN
        IF a.kind = "transport"
        THEN IF c.i < Part9MaxRetries /\ a.code = "ECONNABORTED"
             THEN call' = [c EXCEPT !.pc = "backoff", !.lastError = a]
             ELSE IF c.urlIndex < NumPart9Urls
             THEN call' = [c EXCEPT !.urlIndex = @ + 1, !.i = 0, !.lastError = a]
             ELSE call' = [c EXCEPT !.pc = "threw", !.lastError = a]
        ELSE IF Part9Check(a) = "return"
        THEN call' = [c EXCEPT !.pc = "returned", !.result = a]
        ELSE IF c.urlIndex < NumPart9Urls
        THEN call' = [c EXCEPT !.urlIndex = @ + 1, !.i = 0,
                               !.lastError = [kind |-> Part9Check(a)]]
        ELSE call' = [c EXCEPT !.pc = "threw", !.lastError = [kind |-> Part9Check(a)]]
    /\ UNCHANGED <<core, now, budget, config>>

InitPart9 == InitWith(MaxPart9Calls)
NextPart9 == Part9Call \/ (\E a \in Part9Answers : Part9Answer(a)) \/ NetTimer
SpecPart9 == InitPart9 /\ [][NextPart9]_vars

\* the card-token client alone: logical calls in either variant and either mode
InitNet == InitWith(MaxNetCalls)
NextNet ==
    \/ \E variant \in Variants : \E dev \in BOOLEAN : NetCall(variant, dev)
    \/ \E a \in Answers : NetAnswer(a)
    \/ NetTimer
SpecNet == InitNet /\ [][NextNet]_vars

\* the same client when every request it issues ends (axios is given a timeout)
\* and every setTimeout of a backoff fires
SpecNetLive ==
    SpecNet /\ WF_vars(\E a \in Answers : NetAnswer(a)) /\ WF_vars(NetTimer)

\* paymentWithToken with the client underneath it
InitPayNet == InitWith(MaxPayNetCalls)
NextPayNet ==
    \/ PayTokenCall("pay")
    \/ PayNetCall("pay")
    \/ \E a \in Answers : NetAnswer(a)
    \/ NetTimer
    \/ PayNetEnd("pay")
    \/ PayPaid("pay")
    \/ PayActivation("pay")
    \/ PayFailed("pay")
SpecPayNet == InitPayNet /\ [][NextPayNet]_vars

\* ClickService alone, one callback at a time
InitClick == InitWith(MaxCalls)
NextClick == Tick \/ ClickCall("w1") \/ ClickStep("w1")
SpecClick == InitClick /\ [][NextClick]_vars

\* ClickSubsApiService: one callback at a time, next to paymentWithToken
InitSubs == InitWith(MaxSubsCalls)
NextSubs ==
    \/ SubsPrepareCall("w1") \/ SubsCompleteCall("w1") \/ SubsStep("w1")
    \/ PayerStep("pay")
SpecSubs == InitSubs /\ [][NextSubs]_vars

\* ClickSubsApiService when the writes that follow the save of COMPLETED may throw
SubsCompleteFault(p) == \E created \in BOOLEAN : SubsCompleteThrow(p, created)

InitSubsFault == InitWith(MaxSubsCalls)
NextSubsFault == NextSubs \/ SubsCompleteFault("w1")
SpecSubsFault == InitSubsFault /\ [][NextSubsFault]_vars

\* both services on the one collection
Init == InitWith(MaxBothCalls)
Next == NextClick \/ NextSubs
Spec == Init /\ [][Next]_vars

----------------------------------------------------------------------------
(* Concurrent delivery: two handlers at once, serving the callbacks the gateway *)
(* sends for the transactions it was told of                                    *)

\* the prepare callback of the gateway for payment c of user u1 for plan p1
GatewayPrepare(c) ==
    LET r == Callback("click", c, "u1", "p1", Null, PlanPrice["p1"], ActionPrepare, 0, NoStr)
    IN WithSign(r, GatewaySign(r, SecretKey))

\* the complete callback of the gateway for the prepared transaction i
GatewayComplete(i, c, e) ==
    LET t == transactions[i]
        r == Callback("click", c, t.userId, t.planId, t.prepareId, t.amount,
                      ActionComplete, e, NoStr)
    IN WithSign(r, GatewaySign(r, SecretKey))

\* the callbacks of the gateway for the charge paymentWithToken asked for
GatewaySubs(i, action, e) ==
    LET r == Callback("subs", 1, TxId(i), NoStr, i, transactions[i].amount, action, e, NoStr)
    IN WithSign(r, GatewaySubsSign(r, SecretKey))

\* transactions made by ClickService.prepare / by paymentWithToken
Prepared == {i \in DOMAIN transactions : transactions[i].prepareId # Null}
Charged == {i \in DOMAIN transactions : transactions[i].prepareId = Null}

ClickConcCall(p) ==
    \/ \E c \in 1..MaxTransId : ClickStart(p, GatewayPrepare(c))
    \/ \E i \in Prepared : \E c \in 1..MaxTransId : \E e \in ReqErrors :
            Str(c) = transactions[i].transId /\ ClickStart(p, GatewayComplete(i, c, e))

SubsConcCall(p) ==
    \/ \E i \in Charged : \E e \in ReqErrors : SubsPrepareStart(p, GatewaySubs(i, ActionPrepare, e))
    \/ \E i \in Charged : \E e \in ReqErrors : SubsCompleteStart(p, GatewaySubs(i, ActionComplete, e))

PayConcCall(p) == PayStart(p, [userId |-> "u1", planId |-> "p1", svc |-> "pay"])

PayerConcStep(p) ==
    \/ PayConcCall(p)
    \/ PayGateway(p)
    \/ PayPaid(p)
    \/ PayActivation(p)
    \/ PayFailed(p)

InitClickConc == InitWith(MaxCalls)
NextClickConc == Tick \/ \E p \in Workers : ClickConcCall(p) \/ ClickStep(p)
SpecClickConc == InitClickConc /\ [][NextClickConc]_vars

InitSubsConc == InitWith(MaxSubsCalls)
NextSubsConc ==
    \/ \E p \in Workers : SubsConcCall(p) \/ SubsStep(p)
    \/ PayerConcStep("pay")
SpecSubsConc == InitSubsConc /\ [][NextSubsConc]_vars

\* ClickService with the poller beside it: two handlers, each serving a callback
\* of the gateway or a run of the poller
InitPoll == InitWith(MaxPollCalls)
NextPoll ==
    \/ Tick
    \/ \E p \in Workers : ClickConcCall(p) \/ ClickStep(p) \/ PollStart(p) \/ PollStep(p)
SpecPoll == InitPoll /\ [][NextPoll]_vars

\* the whole core: both services, paymentWithToken and the poller
InitCore == InitWith(MaxCoreCalls)
NextCore == Next \/ PollStart("w2") \/ PollStep("w2")
SpecCore == InitCore /\ [][NextCore]_vars

----------------------------------------------------------------------------
(* Callbacks altered in transit: one field of a gateway-signed callback to *)
(* ClickSubsApiService replaced, the sign_string kept                       *)

\* the fields the gateway signs; for complete the prepare id as well
SignedFields(route) ==
    {"click_trans_id", "service_id", "merchant_trans_id", "amount", "action", "sign_time"}
        \cup (IF route = "complete" THEN {"merchant_prepare_id"} ELSE {})

\* the values a field takes on the wire
FieldValues(f) ==
    CASE f = "click_trans_id" -> 1..2
      [] f = "service_id" -> {ServiceId, ServiceId + 1}
      [] f = "merchant_trans_id" -> {TxId(i) : i \in 1..2}
      [] f = "amount" -> Amounts
      [] f = "action" -> {ActionPrepare, ActionComplete}
      [] f = "sign_time" -> {SignTime, "2025-01-01 10:00:01"}
      [] f = "merchant_prepare_id" -> 1..2

\* the callback of the gateway for transaction i on a route of the controller
RoutedCallback(i, route) ==
    GatewaySubs(i, IF route = "complete" THEN ActionComplete ELSE ActionPrepare, 0)
        @@ [route |-> route]

\* r with field f replaced by v
Altered(r, f, v) == [r EXCEPT ![f] = v]

AlteredCall(p) ==
    \E i \in Charged : \E route \in {"prepare", "complete"} :
        \E f \in SignedFields(route) : \E v \in FieldValues(f) :
            LET dto == Altered(RoutedCallback(i, route), f, v) IN
            IF route = "prepare" THEN SubsPrepareStart(p, dto) ELSE SubsCompleteStart(p, dto)

InitAltered == InitWith(MaxSubsCalls)
NextAltered == AlteredCall("w1") \/ SubsStep("w1") \/ PayerConcStep("pay")
SpecAltered == InitAltered /\ [][NextAltered]_vars

----------------------------------------------------------------------------
(* Callbacks posted to either route of ClickSubsApiController: the gateway's  *)
(* callback for a charge, signed for its own action code, may arrive at      *)
(* POST /payment/prepare or at POST /payment/complete                         *)

RoutedCall(p) ==
    \E i \in Charged : \E action \in {ActionPrepare, ActionComplete} :
        \E route \in {"prepare", "complete"} :
            LET dto == GatewaySubs(i, action, 0) @@ [route |-> route] IN
            IF route = "prepare" THEN SubsPrepareStart(p, dto) ELSE SubsCompleteStart(p, dto)

InitRouted == InitWith(MaxSubsCalls)
NextRouted == RoutedCall("w1") \/ SubsStep("w1") \/ PayerConcStep("pay")
SpecRouted == InitRouted /\ [][NextRouted]_vars

----------------------------------------------------------------------------
(* Properties *)

Done(p) == pc[p] = "done"
IsClickPrepare(r) == r.svc = "click" /\ r.action = ActionPrepare
IsClickComplete(r) == r.svc = "click" /\ r.action = ActionComplete
IsSubsPrepare(r) == r.svc = "subs" /\ r.action = ActionPrepare
IsSubsComplete(r) == r.svc = "subs" /\ r.action = ActionComplete
IsCallback(r) == r.svc \in {"click", "subs"}

Terminal == {COMPLETED, PAID, FAILED, CANCELED}
NonTerminal == {PENDING, PROCESSING}

\* the sign_string of a callback is the digest of the callback's own fields
SignatureMatches(r) ==
    r.sign_string =
        CASE IsClickPrepare(r) -> ClickPrepareHash(r, SecretKey)
          [] IsClickComplete(r) -> ClickCompleteHash(r, SecretKey)
          [] OTHER -> createSignature(r)

\* C1: two completeTransaction calls delivered at once for one transaction in
\* PROCESSING create at most one UserSubscription for it.
C1_OneSubscriptionPerCompletion ==
    \A i \in DOMAIN transactions : subscriptions[i].callback <= 1

\* C2: a prepare or complete callback whose sign_string differs from the digest
\* of its own fields has created no Transaction, changed no status and triggered
\* no activation or subscription.
C2_BadSignatureHasNoEffect ==
    \A p \in Workers :
        (IsCallback(req[p]) /\ ~SignatureMatches(req[p])) => eff[p] = {}

\* C2 witness: a callback with a wrong sign_string was answered SIGN_CHECK_FAILED
\* while a transaction it names was waiting in the collection.
C2_Witness ==
    \E p \in Workers :
        /\ Done(p)
        /\ IsCallback(req[p])
        /\ req[p].action = ActionComplete
        /\ ~SignatureMatches(req[p])
        /\ resp[p].error = SIGN_CHECK_FAILED
        /\ \E i \in DOMAIN transactions : transactions[i].status \in NonTerminal

\* a prepare that passes every check but the duplicate check
ValidClickPrepare(r) ==
    /\ IsClickPrepare(r)
    /\ SignatureMatches(r)
    /\ r.merchant_trans_id \in Users
    /\ r.param1 \in Plans
    /\ r.amount = PlanPrice[r.param1]

WithTransId(c) == {i \in DOMAIN transactions : transactions[i].transId = Str(c)}

\* C3: a valid prepare with an unseen click_trans_id creates one PENDING
\* Transaction and returns SUCCESS with a merchant_prepare_id; a prepare with a
\* click_trans_id seen before returns ALREADY_PAID and creates no second record.
C3_SecondPrepareRejected ==
    \A p \in Workers :
        (Done(p) /\ ValidClickPrepare(req[p])) =>
            LET created == IF "create" \in eff[p] THEN 1 ELSE 0
                before == Cardinality(WithTransId(req[p].click_trans_id)) - created
            IN IF before = 0
               THEN /\ resp[p].error = SUCCESS
                    /\ resp[p].id # Null
                    /\ created = 1
               ELSE /\ resp[p].error = ALREADY_PAID
                    /\ created = 0

\* C4: no more than one Transaction in a non-terminal status exists for one
\* external transaction id.
C4_OneOpenTransactionPerTransId ==
    \A c \in 1..MaxTransId :
        Cardinality({i \in WithTransId(c) : transactions[i].status \in NonTerminal}) <= 1

\* C5: once the status of a Transaction is terminal, no step changes it.
C5_TerminalStatusKept ==
    [][\A i \in DOMAIN transactions :
          transactions[i].status \in Terminal =>
              transactions'[i].status = transactions[i].status]_vars

\* the transaction completeTransaction finds for the request of p
SubsTarget(p) == FindById(req[p].merchant_trans_id)

\* C6: completeTransaction redelivered for a transaction that is already
\* COMPLETED returns error 0 with the merchant_confirm_id of the first
\* completion (the transaction's id), changes no transaction and creates no
\* further UserSubscription.
C6_RedeliveredCompleteIsIdempotent ==
    /\ [](\A p \in Workers :
            (Done(p) /\ IsSubsComplete(req[p]) /\ resp[p].error = SUCCESS) =>
                resp[p].id = req[p].merchant_trans_id)
    /\ [][\A p \in Workers :
            (/\ pc[p] = "sc_find"
             /\ pc'[p] # "sc_find"
             /\ SubsTarget(p) # Null
             /\ transactions[SubsTarget(p)].status = COMPLETED) =>
                (/\ pc'[p] = "done"
                 /\ resp'[p] = SubsResp(SUCCESS, req[p].merchant_trans_id)
                 /\ eff'[p] = {}
                 /\ transactions' = transactions
                 /\ subscriptions' = subscriptions)]_vars

\* C6 witness: a complete was answered with error 0 without writing anything,
\* for a transaction an earlier complete had moved to COMPLETED and subscribed.
C6_Witness ==
    \E p \in Workers :
        /\ Done(p)
        /\ IsSubsComplete(req[p])
        /\ resp[p].error = SUCCESS
        /\ eff[p] = {}
        /\ SubsTarget(p) # Null
        /\ transactions[SubsTarget(p)].status = COMPLETED
        /\ subscriptions[SubsTarget(p)].callback = 1

\* C7: two ClickService.complete calls for one click_trans_id and
\* merchant_prepare_id invoke handlePaymentSuccess at most once for the transaction.
C7_OneActivationPerTransaction ==
    \A i \in DOMAIN transactions : activations[i] <= 1

\* a PAID Transaction carries the prepare id, user and plan the request of p presents
PaidForRequest(p) ==
    \E i \in DOMAIN transactions :
        /\ transactions[i].prepareId = req[p].merchant_prepare_id
        /\ transactions[i].userId = req[p].merchant_trans_id
        /\ transactions[i].planId = req[p].param1
        /\ transactions[i].status = PAID

C9_ErrorNeverPays ==
    \A p \in Workers :
        (IsClickComplete(req[p]) /\ req[p].error # 0) =>
            (PAID \notin eff[p] /\ "activate" \notin eff[p])

\* the transaction a complete callback is about
CompleteTarget(p) ==
    IF req[p].svc = "subs" THEN FindById(req[p].merchant_trans_id)
    ELSE FindByTransId(Str(req[p].click_trans_id))

\* C10: a signature-valid complete with a non-zero error field, sent for a
\* transaction that existed when it arrived and was not yet terminal, leaves it
\* FAILED and returns exactly that error code.
C10_ErrorMarksFailed ==
    \A p \in Workers :
        (/\ Done(p)
         /\ IsCallback(req[p])
         /\ req[p].action = ActionComplete
         /\ req[p].error # 0
         /\ SignatureMatches(req[p])
         /\ CompleteTarget(p) # Null
         /\ CompleteTarget(p) <= seen[p]
         /\ transactions[CompleteTarget(p)].status \notin {COMPLETED, PAID, CANCELED}) =>
            (/\ transactions[CompleteTarget(p)].status = FAILED
             /\ resp[p].error = req[p].error)

\* r is a signature-valid callback with one signed field changed and the
\* sign_string kept
OneFieldAltered(r) ==
    \E f \in SignedFields(r.route) : \E v \in FieldValues(f) :
        v # r[f] /\ r.sign_string = createSignature(Altered(r, f, v))

\* C11: a signature-valid prepare or complete request to ClickSubsApiService
\* (error 0) in which one signed field was changed while the sign_string was kept
\* is answered SIGN_CHECK_FAILED and leaves every transaction unchanged.
C11_AlteredFieldRejected ==
    \A p \in Workers :
        (Done(p) /\ req[p].svc = "subs" /\ OneFieldAltered(req[p])) =>
            (resp[p].error = SIGN_CHECK_FAILED /\ eff[p] = {})

\* C12: ClickService.complete changes the status of a Transaction only if that
\* Transaction's own prepareId, userId and planId are the merchant_prepare_id,
\* user and plan of the callback.
C12_CompleteScopedToPrepareId ==
    [][\A p \in Workers : \A i \in DOMAIN transactions :
        (/\ pc[p] = "cc_update"
         /\ pc'[p] # "cc_update"
         /\ transactions'[i].status # transactions[i].status) =>
            (/\ transactions[i].prepareId = req[p].merchant_prepare_id
             /\ transactions[i].userId = req[p].merchant_trans_id
             /\ transactions[i].planId = req[p].param1)]_vars

\* transaction t was created by the paymentWithToken call that still waits for
\* the gateway: since its creation only callbacks have touched it
AwaitingGateway(t) ==
    \E q \in Payers : pc[q] = "pw_call" /\ loc[q].idx = t

\* C13: for a PENDING transaction (present when the callbacks arrive) whose amount
\* is the plan price, a
\* signature-valid prepareTransaction answers error 0 with the transaction id as
\* merchant_prepare_id and leaves it PROCESSING; the signature-valid
\* completeTransaction with error 0 that follows answers error 0 with the same
\* id as merchant_confirm_id, leaves it COMPLETED and exactly one
\* UserSubscription was created.
C13_PrepareThenComplete ==
    \A p \in Workers :
        LET t == SubsTarget(p) IN
        (/\ Done(p)
         /\ req[p].svc = "subs"
         /\ req[p].error = 0
         /\ SignatureMatches(req[p])
         /\ t # Null
         /\ t <= seen[p]
         /\ AwaitingGateway(t)
         /\ transactions[t].amount = PlanPrice[transactions[t].planId]) =>
            IF req[p].action = ActionPrepare
            THEN req[p].amount = transactions[t].amount =>
                    \/ /\ resp[p] = SubsResp(SUCCESS, req[p].merchant_trans_id)
                       /\ transactions[t].status = PROCESSING
                       /\ eff[p] = {PROCESSING}
                    \/ /\ resp[p].error = TRANSACTION_CANCELLED
                       /\ transactions[t].status # PENDING
                       /\ eff[p] = {}
            ELSE transactions[t].status # PENDING =>
                    /\ resp[p] = SubsResp(SUCCESS, req[p].merchant_trans_id)
                    /\ transactions[t].status = COMPLETED
                    /\ subscriptions[t].callback = 1

\* C13 witness: the complete that followed the prepare has just moved the
\* transaction to COMPLETED and created its one UserSubscription.
C13_Witness ==
    \E p \in Workers :
        /\ Done(p)
        /\ IsSubsComplete(req[p])
        /\ SignatureMatches(req[p])
        /\ SubsTarget(p) # Null
        /\ AwaitingGateway(SubsTarget(p))
        /\ eff[p] = {COMPLETED, "subscribe"}
        /\ resp[p] = SubsResp(SUCCESS, req[p].merchant_trans_id)
        /\ transactions[SubsTarget(p)].status = COMPLETED
        /\ subscriptions[SubsTarget(p)].callback = 1

\* the handler of p has ended: it returned a response or an exception left it
Ended(p) == pc[p] \in {"done", "thrown"}

\* C14: when the activation writes throw after completeTransaction has saved the
\* transaction as COMPLETED, the handler still returns the SUCCESS response and
\* the transaction stays COMPLETED (the handler writes no other status).
C14_ActivationFailureStillSucceeds ==
    \A p \in Workers :
        (Ended(p) /\ IsSubsComplete(req[p]) /\ COMPLETED \in eff[p]) =>
            (/\ Done(p)
             /\ resp[p].error = SUCCESS
             /\ eff[p] \subseteq {COMPLETED, "subscribe"})

\* C15: in paymentWithToken, once the transaction has been saved as PAID, no
\* later step of the call (a failure of the subscription writes included) moves
\* it away from PAID.
C15_PaidSurvivesActivationFailure ==
    [][\A q \in Payers :
        (/\ PAID \in eff[q]
         /\ pc'[q] # pc[q]
         /\ transactions[loc[q].idx].status = PAID) =>
            transactions'[loc[q].idx].status = PAID]_vars

\* C16: whatever the request body and whatever the store does,
\* handleMerchantTransactions returns a response object; no exception leaves
\* the callback handler.
C16_NoExceptionToGateway ==
    \A p \in Workers : req[p].svc = "click" => pc[p] # "thrown"

\* the price of the plan a complete callback refers to, Null when it names no
\* known plan or transaction
ReferencedPrice(p) ==
    IF req[p].svc = "click"
    THEN IF req[p].param1 \in Plans THEN PlanPrice[req[p].param1] ELSE Null
    ELSE IF SubsTarget(p) # Null /\ SubsTarget(p) <= seen[p]
              /\ transactions[SubsTarget(p)].planId \in Plans
         THEN PlanPrice[transactions[SubsTarget(p)].planId]
         ELSE Null

\* C17: a complete callback whose amount differs from the price of the
\* referenced plan is answered INVALID_AMOUNT and does not complete the
\* transaction.  Stated for the signature-valid callbacks with error 0, and in
\* the part that no earlier rejection of the handler can excuse: such a callback
\* is never answered with error 0 and never writes PAID or COMPLETED.
C17_CompleteAmountChecked ==
    \A p \in Workers :
        (/\ Done(p)
         /\ IsCallback(req[p])
         /\ req[p].action = ActionComplete
         /\ req[p].error = 0
         /\ SignatureMatches(req[p])
         /\ ReferencedPrice(p) # Null
         /\ req[p].amount # ReferencedPrice(p)) =>
            (/\ resp[p].error # SUCCESS
             /\ eff[p] \cap {PAID, COMPLETED} = {})

\* the price recorded for what a prepare callback refers to: the plan
\* (ClickService) or the transaction (ClickSubsApiService); Null when there is none
PreparePrice(p) ==
    IF req[p].svc = "click"
    THEN IF req[p].param1 \in Plans THEN PlanPrice[req[p].param1] ELSE Null
    ELSE IF SubsTarget(p) # Null /\ SubsTarget(p) <= seen[p]
         THEN transactions[SubsTarget(p)].amount
         ELSE Null

\* a finished signature-valid prepare whose amount is not the recorded price
WrongAmountPrepare(p) ==
    /\ Done(p)
    /\ IsCallback(req[p])
    /\ req[p].action = ActionPrepare
    /\ SignatureMatches(req[p])
    /\ PreparePrice(p) # Null
    /\ req[p].amount # PreparePrice(p)

TargetRefused(p) ==
    LET t == FindByTransId(Str(req[p].click_trans_id)) IN
        t # Null /\ transactions[t].status \in {CANCELED, FAILED}

\* C19: a signature-valid complete of ClickService for a Transaction whose
\* status is CANCELED or FAILED is answered TRANSACTION_CANCELLED and leaves the
\* status unchanged.  Stated at the two steps of complete that follow its
\* checks of signature, user, plan, prepare id and amount: the read of the
\* transaction ends the call with error -9, and the update writes nothing.
C19_RefusedTransactionStaysRefused ==
    [][\A p \in Workers :
        /\ (pc[p] = "cc_find" /\ pc'[p] # "cc_find" /\ TargetRefused(p)) =>
                (pc'[p] = "done" /\ resp'[p].error = TRANSACTION_CANCELLED)
        /\ (pc[p] = "cc_update" /\ pc'[p] # "cc_update" /\ TargetRefused(p)) =>
                transactions' = transactions]_vars

\* C20: prepareTransaction answers a request with a non-zero embedded error
\* with ACTION_NOT_FOUND and a null merchant_prepare_id, whatever its
\* signature; the handler never gets to a read or a write of the store (it is
\* never at a later step than its return) and it changes no transaction.
C20_PrepareWithErrorRejected ==
    \A p \in Workers :
        (IsSubsPrepare(req[p]) /\ req[p].error # 0) =>
            /\ Done(p)
            /\ resp[p] = SubsResp(ACTION_NOT_FOUND, NoStr)
            /\ eff[p] = {}

\* C20 witness: a correctly signed prepare with a non-zero error, sent for a
\* transaction that waits for it, was answered ACTION_NOT_FOUND and the
\* transaction still waits.
C20_Witness ==
    \E p \in Workers :
        /\ Done(p)
        /\ IsSubsPrepare(req[p])
        /\ req[p].error # 0
        /\ SignatureMatches(req[p])
        /\ SubsTarget(p) # Null
        /\ SubsTarget(p) <= seen[p]
        /\ transactions[SubsTarget(p)].status = PENDING
        /\ resp[p].error = ACTION_NOT_FOUND

\* the action code a route of ClickSubsApiController is for
RouteAction(route) == IF route = "prepare" THEN ActionPrepare ELSE ActionComplete

\* C21: prepareTransaction changes state only for requests with action code 0
\* and completeTransaction only for requests with action code 1: a
\* signature-valid request that carries the other action code is rejected and
\* changes nothing.
C21_OtherActionRejected ==
    \A p \in Workers :
        (/\ Done(p)
         /\ req[p].svc = "subs"
         /\ "route" \in DOMAIN req[p]
         /\ SignatureMatches(req[p])
         /\ req[p].action # RouteAction(req[p].route)) =>
            (resp[p].error # SUCCESS /\ eff[p] = {})

\* the logical call of the client is over
NetEnded == call.pc \in {"returned", "threw"}

\* C22: once a candidate has answered with a structured gateway body carrying
\* an error_code, with a 2xx status or not, no request goes to a later
\* candidate, and that gateway answer is what the caller gets, returned or
\* thrown.
C22_GatewayAnswerEndsTheCall ==
    call.gatewayAt # 0 =>
        /\ \A k \in (call.gatewayAt + 1)..Len(sent) : sent[k].url = sent[call.gatewayAt].url
        /\ call.pc = "returned" => call.result = call.gateway
        /\ call.pc = "threw" => call.lastError = call.gateway

\* C23: when every candidate has failed, the call ends by throwing the last
\* error: a call that returns hands back a response that a gateway candidate
\* produced, never one made up locally, and a call that throws throws the
\* failure of a request.
C23_ExhaustionPropagatesLastError ==
    /\ call.pc = "returned" => (~call.result.mock /\ call.result \in Answers)
    /\ call.pc = "threw" => (call.lastError \in Answers /\ ~Resolves(call.lastError))

\* C24: the candidates are tried strictly in list order, and the response of
\* the first candidate that succeeds is returned at once: from the moment a
\* candidate has succeeded the call has returned with that response, and the
\* last request issued is the one it answered.
C24_FirstSuccessReturned ==
    /\ \A k \in 1..Len(sent) :
            /\ sent[k].url \in Urls(call.variant)
            /\ sent[k].url = (IF k = 1 THEN 1 ELSE sent[k - 1].url)
                    \/ (k > 1 /\ sent[k].url = sent[k - 1].url + 1)
    /\ call.result \in Answers =>
            /\ call.pc = "returned"
            /\ Resolves(call.result)
            /\ sent[Len(sent)].url = call.urlIndex

\* C24 witness: of four candidates the first two timed out on every attempt, the
\* third answered {error_code: 0}; the call returned that response and the
\* fourth candidate was never requested.
C24_Witness ==
    /\ call.variant = "service"
    /\ call.pc = "returned"
    /\ call.result = Http(200, TRUE, 0)
    /\ sent[Len(sent)].url = 3
    /\ call.timeouts = Len(sent) - 1
    /\ \A k \in 1..Len(sent) : sent[k].url # 4

\* the client is between two requests of one call, the last one having failed
BetweenRequests == Len(sent) > 0 /\ call.pc \in {"post", "backoff"}

\* C25: after a candidate has answered HTTP 400, 401 or 403, retryRequest
\* issues no further request to that candidate: the failure goes back to the
\* candidate loop at once, so the client is never waiting to retry, and the
\* request it is about to issue goes to the next candidate.
C25_NoRetryAfterClientError ==
    (BetweenRequests /\ call.lastError.status \in {400, 401, 403}) =>
        /\ call.pc = "post"
        /\ call.urlIndex = sent[Len(sent)].url + 1

\* C25 witness: a candidate of the part_010 client answered 401 on its first
\* attempt and the client is about to ask the next candidate.
C25_Witness ==
    /\ BetweenRequests
    /\ call.variant = "part_010"
    /\ call.lastError.status = 401
    /\ Len(sent) = 1
    /\ call.urlIndex = 2

\* the transport conditions worth a second attempt: a timeout, HTTP 502, 503, 504
RetriableTransport(e) == e.code = "ECONNABORTED" \/ e.status \in {502, 503, 504}

\* C26: the retryRequest of part_010 (and part_007) issues a request to the
\* same candidate again only after a retriable transport condition: whenever
\* it waits to retry, the failure before was a timeout or HTTP 502, 503 or 504.
C26_RetryOnlyTransportFailures ==
    (call.variant = "part_010" /\ call.pc = "backoff") => RetriableTransport(call.lastError)

\* C27: every HTTP request of a logical call, each retry and each request to a
\* fallback candidate included, carries an Auth header generated for that
\* request.  Stated for the requests a backoff delay separates, which are
\* issued in different seconds: no two of them carry the same Auth value.
C27_FreshAuthPerRequest ==
    \A j \in 1..Len(sent) : \A k \in 1..Len(sent) :
        (j < k /\ sent[j].at # sent[k].at) => sent[j].headers.Auth # sent[k].headers.Auth

\* the Auth parts of the gateway's contract: merchantUserId, the SHA-1 of
\* timestamp + secret, and the timestamp in Unix seconds (10 digits)
ContractAuth(auth) ==
    /\ Len(auth) = 3
    /\ auth[1] = MerchantUserId
    /\ auth[3] \in {UnixSeconds(t) : t \in 0..now}
    /\ Len(auth[3]) = 10
    /\ auth[2] = Hash("sha1", auth[3] \o SecretKey)

\* C28: every outbound gateway request carries an Auth header of the form
\* merchantUserId:digest:timestamp, the timestamp being the Unix time in whole
\* seconds and the digest the SHA-1 of timestamp and secret.
C28_AuthHeaderShape ==
    \A k \in 1..Len(sent) : ContractAuth(sent[k].headers.Auth)

C30_ChargeLeavesPending ==
    \A p \in Payers :
        (Done(p) /\ "create" \in eff[p]) =>
            /\ transactions[loc[p].idx].status \in {PAID, FAILED}
            /\ (Len(sent) > 0 /\ call.timeouts = Len(sent)) =>
                    transactions[loc[p].idx].status = FAILED

\* C31: no operation of the core (prepare, complete, paymentWithToken, the
\* poller) changes the amount, userId or planId of an existing Transaction, and
\* none deletes a Transaction.
C31_TransactionFrame ==
    [][\A i \in DOMAIN transactions :
          /\ i \in DOMAIN transactions'
          /\ transactions'[i].amount = transactions[i].amount
          /\ transactions'[i].userId = transactions[i].userId
          /\ transactions'[i].planId = transactions[i].planId]_vars

\* C31 witness: a run of the poller has set an existing transaction to PAID, and
\* the transaction still carries its user, its plan and the plan's price.
C31_Witness ==
    \E p \in Workers : \E i \in DOMAIN transactions :
        /\ req[p] = PollReq
        /\ PAID \in eff[p]
        /\ transactions[i].status = PAID
        /\ transactions[i].userId \in Users
        /\ transactions[i].amount = PlanPrice[transactions[i].planId]

\* C32: paymentWithToken sets a transaction to PAID and creates a
\* UserSubscription only if a gateway candidate answered the payment request
\* with error_code 0; when every request failed the transaction is never PAID.
C32_PaidOnlyOnGatewaySuccess ==
    \A p \in Payers :
        (PAID \in eff[p] \/ "subscribe" \in eff[p]) =>
            (call.result \in Answers /\ call.result.error_code = 0)

\* C33: for a transaction created by paymentWithToken, however the gateway's
\* prepare and complete callbacks interleave with paymentWithToken's handling of
\* the gateway response, at most one UserSubscription is created for it and a
\* COMPLETED written by the callback is not overwritten.  Stated for the steps
\* of paymentWithToken: none changes a COMPLETED status, and none creates a
\* subscription for a transaction the callback has created one for.
C33_CallbackCompletionKept ==
    [][\A p \in Payers : pc'[p] # pc[p] =>
          \A i \in DOMAIN transactions :
              /\ transactions[i].status = COMPLETED => transactions'[i].status = COMPLETED
              /\ subscriptions[i].callback > 0 =>
                    subscriptions'[i].token = subscriptions[i].token]_vars

\* C34: for any one Transaction the payment-success activation is invoked at
\* most once across ClickService.complete and the poller, two overlapping runs
\* of the poller included.  Stated for the steps of a poller run: none invokes
\* the activation for a transaction it has been invoked for already.
C34_PollerActivatesOnce ==
    [][\A p \in Workers : (req[p] = PollReq /\ pc'[p] # pc[p]) =>
          \A i \in DOMAIN transactions :
              activations[i] >= 1 => activations'[i] = activations[i]]_vars

\* C35: in ClickSubsApiService a transaction reaches COMPLETED only from
\* PROCESSING, and PROCESSING only from PENDING through a signature-valid
\* prepareTransaction for that transaction; a callback creates a subscription
\* only after it wrote COMPLETED, and a complete callback that finds the
\* transaction still PENDING changes nothing.
C35_CompletionFollowsPrepare ==
    [][\A i \in DOMAIN transactions :
          /\ (transactions'[i].status = COMPLETED /\ transactions[i].status # COMPLETED) =>
                transactions[i].status = PROCESSING
          /\ (transactions'[i].status = PROCESSING /\ transactions[i].status # PROCESSING) =>
                /\ transactions[i].status = PENDING
                /\ \E p \in Workers :
                      /\ pc'[p] # pc[p]
                      /\ IsSubsPrepare(req[p])
                      /\ SignatureMatches(req[p])
                      /\ SubsTarget(p) = i
          /\ subscriptions'[i].callback > subscriptions[i].callback =>
                \E p \in Workers : pc'[p] # pc[p] /\ COMPLETED \in eff[p]
          /\ \A p \in Workers :
                (/\ pc[p] = "sc_find"
                 /\ pc'[p] # pc[p]
                 /\ SubsTarget(p) = i
                 /\ transactions[i].status = PENDING) =>
                    /\ transactions' = transactions
                    /\ subscriptions' = subscriptions
                    /\ activations' = activations
                    /\ pc'[p] = "done"
                    /\ eff'[p] = {}
                    /\ resp'[p].error # SUCCESS]_vars

\* the requests of the current call issued to candidate u
RequestsTo(u) == Cardinality({k \in 1..Len(sent) : sent[k].url = u})

\* C36: retryWithMultipleUrls terminates: retryRequest issues at most
\* maxRetries + 1 requests to a candidate, so a logical call issues at most
\* (number of candidates) x (maxRetries + 1) requests, 12 in
\* click-subs-api.service.ts, and a call that has begun returns or throws.
C36_RetryTerminates ==
    /\ [](/\ \A u \in Urls(call.variant) : RequestsTo(u) <= MaxRetries + 1
          /\ Len(sent) <= Cardinality(Urls(call.variant)) * (MaxRetries + 1)
          /\ call.variant = "service" => Len(sent) <= 12)
    /\ (call.pc \in {"post", "backoff"}) ~> (call.pc \in {"returned", "threw"})

\* C36 witness: in production every one of the twelve requests of a call timed
\* out, three to each of the four candidates, and the call threw to its caller.
C36_Witness ==
    /\ call.variant = "service"
    /\ ~call.dev
    /\ call.pc = "threw"
    /\ Len(sent) = 12
    /\ call.timeouts = 12
    /\ \A u \in Urls("service") : RequestsTo(u) = MaxRetries + 1

\* C37: the retryWithMultipleUrls of part_009 never returns a response whose
\* body is an HTML document or another non-JSON, non-object body: a call that
\* ended on such a response threw an Error that is neither the transport error
\* nor a gateway error_code, whatever the HTTP status.
C37_HtmlNeverReturned ==
    (/\ call.variant = "part_009"
     /\ call.pc \in {"returned", "threw"}
     /\ call.gateway.kind = "response"
     /\ call.gateway.data.type = "string") =>
        /\ call.pc = "threw"
        /\ call.lastError.kind \in {"HTML_RESPONSE", "NON_JSON_RESPONSE", "RESOURCE_NOT_FOUND"}

\* C38: when the gateway answers a request of paymentWithToken with a
\* well-formed body whose error_code is not 0, no request goes to a further
\* candidate, the transaction is not PAID and gets no UserSubscription, and
\* paymentWithToken ends with the transaction FAILED and {success: false}.
C38_GatewayErrorFailsPayment ==
    \A p \in Payers :
        ("create" \in eff[p] /\ call.gatewayAt # 0 /\ call.gateway.error_code # 0) =>
            /\ \A k \in (call.gatewayAt + 1)..Len(sent) : sent[k].url = sent[call.gatewayAt].url
            /\ PAID \notin eff[p]
            /\ "subscribe" \notin eff[p]
            /\ Done(p) =>
                /\ transactions[loc[p].idx].status = FAILED
                /\ subscriptions[loc[p].idx].token = 0
                /\ resp[p] = PayResp(FALSE)

\* C39: a signature-valid prepare redelivered to prepareTransaction (error 0,
\* the transaction's amount) for a transaction that is no longer PENDING is
\* answered ALREADY_PAID (-4) and leaves every transaction as it was.
C39_RedeliveredPrepareAlreadyPaid ==
    [][\A p \in Workers :
          LET t == SubsTarget(p) IN
          (/\ pc[p] = "sp_find"
           /\ pc'[p] # pc[p]
           /\ IsSubsPrepare(req[p])
           /\ SignatureMatches(req[p])
           /\ req[p].error = 0
           /\ t # Null
           /\ transactions[t].amount = req[p].amount
           /\ transactions[t].status # PENDING) =>
              /\ pc'[p] = "done"
              /\ resp'[p].error = ALREADY_PAID
              /\ transactions' = transactions]_vars

====
